---- MODULE Spec2Model ----
(***************************************************************************)
(* Feature-engineering stages of API-Brasileirao                           *)
(* (src/processing/features.py, src/processing/coordinates.py) and its     *)
(* harvester (src/data_acquisition/harvester.py, db.py).                   *)
(*                                                                         *)
(* Representation                                                          *)
(*   - a DataFrame is a sequence of rows, a row is a record;               *)
(*   - a Python str is a sequence of one-character strings;                *)
(*   - an optional value is <<>> (None / NaN) or <<v>>;                    *)
(*   - a date is a day number;                                             *)
(*   - a mean is an exact fraction <<numerator, denominator>> in lowest    *)
(*     terms (expected goals are counted in hundredths);                   *)
(*   - a coordinate is <<lat, lon>> in 1e-5 degrees and a distance is in   *)
(*     hundredths of a kilometre.                                          *)
(***************************************************************************)
EXTENDS Integers, Sequences, FiniteSets, TLC

VARIABLES
    matches,        \* matches_df: the caller's match table
    teams_info,     \* teams_info_df: override coordinate table, or NoTable
    city_state_map, \* city_state_map: a dict as a table of [city, state] rows, or NoTable
    player_stats,   \* player_stats_df, or NoTable / NoColumns
    standings,      \* standings_df, or NoTable
    called,         \* which stage has been called ("none" before the call)
    args,           \* the configuration the stage was called with
    out,            \* the table the call returned (empty before the call)
    raised,         \* whether the call raised instead of returning
    tie_rule,       \* how this build's sort_values("data") orders equal dates
    applied,        \* the stages a caller has chained so far, in order
    first,          \* the chain and the table of the caller's previous run
    quota_log,      \* the count in today's .request_quota.json
    harvest,        \* each harvest_seasons call: its position, quota and locals
    http_requests,  \* the outbound HTTP requests made today
    db_matches,     \* the rows of the SQLite table matches
    db_player_stats, \* the fixtures that have rows in the table player_stats
    teams_seeded    \* whether the table teams_info holds the known teams

vars == <<matches, teams_info, city_state_map, player_stats, standings,
          called, args, out, raised, tie_rule, applied, first,
          quota_log, harvest, http_requests,
          db_matches, db_player_stats, teams_seeded>>

----------------------------------------------------------------------------
(* Bounds of the model *)

\* longest match table of the single-stage specifications
MaxMatches == 3
\* RequestQuota.daily_limit (100 unless the caller says otherwise)
daily_limit == 5
\* longest match table of the specification that runs every stage
SmallMatches == 2
\* largest rolling / history window a stage is called with
MaxWindow == 2
\* largest top_n compute_key_players is called with
MaxTopN == 2
\* largest number of points of a standings row
MaxPts == 3

----------------------------------------------------------------------------
(* Optional values and markers *)

\* the value an expression has, evaluated once
Only(S) == CHOOSE x \in S : TRUE

None == <<>>
Some(v) == <<v>>
IsNone(o) == o = <<>>
Val(o) == o[1]

\* an auxiliary table: a frame with its columns and rows
Frame(rows) == [kind |-> "frame", rows |-> rows]
\* an auxiliary table that was not passed (None)
NoTable == [kind |-> "none", rows |-> <<>>]
\* pd.DataFrame(): an empty frame that carries no columns
NoColumns == [kind |-> "nocolumns", rows |-> <<>>]

----------------------------------------------------------------------------
(* Python str operations, on sequences of characters *)

UpperChars == <<"A","B","C","D","E","F","G","H","I","J","K","L","M",
                "N","O","P","Q","R","S","T","U","V","W","X","Y","Z">>
LowerChars == <<"a","b","c","d","e","f","g","h","i","j","k","l","m",
                "n","o","p","q","r","s","t","u","v","w","x","y","z">>
DigitChars == {"0","1","2","3","4","5","6","7","8","9"}

LowerChar(c) ==
    IF \E i \in 1..26 : UpperChars[i] = c
    THEN LowerChars[CHOOSE i \in 1..26 : UpperChars[i] = c]
    ELSE c

UpperChar(c) ==
    IF \E i \in 1..26 : LowerChars[i] = c
    THEN UpperChars[CHOOSE i \in 1..26 : LowerChars[i] = c]
    ELSE c

\* str.lower()
Lower(s) == [i \in 1..Len(s) |-> LowerChar(s[i])]
\* str.upper()
Upper(s) == [i \in 1..Len(s) |-> UpperChar(s[i])]

\* str.strip(): leading and trailing blanks removed
RECURSIVE LStrip(_)
LStrip(s) == IF s # <<>> /\ Head(s) = " " THEN LStrip(Tail(s)) ELSE s
RECURSIVE RStrip(_)
RStrip(s) ==
    IF s # <<>> /\ s[Len(s)] = " " THEN RStrip(SubSeq(s, 1, Len(s) - 1)) ELSE s
Strip(s) == RStrip(LStrip(s))

\* whether s starts with the non-empty sequence p
StartsWith(s, p) == Len(p) <= Len(s) /\ SubSeq(s, 1, Len(p)) = p

\* str.replace(old, new): non-overlapping occurrences, left to right
RECURSIVE Replace(_, _, _)
Replace(s, old, new) ==
    IF s = <<>> THEN <<>>
    ELSE IF StartsWith(s, old)
         THEN new \o Replace(SubSeq(s, Len(old) + 1, Len(s)), old, new)
         ELSE <<Head(s)>> \o Replace(Tail(s), old, new)

\* `needle in hay` for str
Contains(hay, needle) ==
    \E i \in 1..(Len(hay) + 1) :
        i + Len(needle) - 1 <= Len(hay) /\ SubSeq(hay, i, i + Len(needle) - 1) = needle

\* position of the last occurrence of character c in s, 0 when there is none
LastIndexOf(s, c) ==
    IF \E i \in 1..Len(s) : s[i] = c
    THEN CHOOSE i \in 1..Len(s) : s[i] = c /\ \A j \in (i + 1)..Len(s) : s[j] # c
    ELSE 0

\* the decimal value of a non-empty sequence of digit characters
DigitValue(c) == CHOOSE d \in 0..9 : <<"0","1","2","3","4","5","6","7","8","9">>[d + 1] = c
RECURSIVE ParseInt(_)
ParseInt(ds) ==
    IF ds = <<>> THEN 0
    ELSE ParseInt(SubSeq(ds, 1, Len(ds) - 1)) * 10 + DigitValue(ds[Len(ds)])

\* SelectSeq with a named test is used for filters; the i-th to j-th rows
Last(s, n) == IF Len(s) <= n THEN s ELSE SubSeq(s, Len(s) - n + 1, Len(s))

\* def normalize_team_name(name)
normalize_team_name(name) ==
    Lower(Strip(
        Replace(
            Replace(
                Replace(
                    Replace(name, <<"-">>, <<" ">>),
                    <<".">>, <<>>),
                <<"F","C">>, <<>>),
            <<"F",".","C",".">>, <<>>)))

----------------------------------------------------------------------------
(* Team names and the built-in tables *)

Bahia == <<"B","a","h","i","a">>
Sport == <<"S","p","o","r","t">>
Vasco == <<"V","a","s","c","o">>
Santos == <<"S","a","n","t","o","s">>

\* other spellings a table can carry
santos == <<"s","a","n","t","o","s">>
SANTOS == <<"S","A","N","T","O","S">>
SantosFC == <<"S","a","n","t","o","s"," ","F","C">>
BAHIA == <<"B","A","H","I","A">>

\* TEAM_COORDINATES: the entries of the teams above, in 1e-5 degrees
TEAM_COORDINATES ==
    (Bahia :> [lat |-> -1297140, lon |-> -3850140]) @@
    (Sport :> [lat |-> -805780, lon |-> -3487780]) @@
    (Vasco :> [lat |-> -2290680, lon |-> -4317290]) @@
    (Santos :> [lat |-> -2396080, lon |-> -4633390])

\* CAPITAL_COORDINATES: the entries of four states, in 1e-5 degrees
CAPITAL_COORDINATES ==
    (<<"B","A">> :> [lat |-> -1297110, lon |-> -3851080]) @@
    (<<"P","E">> :> [lat |-> -805428, lon |-> -3488130]) @@
    (<<"R","J">> :> [lat |-> -2290680, lon |-> -4317290]) @@
    (<<"S","P">> :> [lat |-> -2355050, lon |-> -4663330])

\* round(6371.0 * 2 * asin(sqrt(a)), 2) in hundredths of a kilometre, for the
\* points of the tables above: the values the function returns for them
HaversineTable ==
    (<<-1297140, -3850140, -1297110, -3851080>> :> 102) @@
    (<<-1297140, -3850140, -805428, -3488130>> :> 67489) @@
    (<<-1297140, -3850140, -2290680, -4317290>> :> 120992) @@
    (<<-1297140, -3850140, -2355050, -4663330>> :> 145541) @@
    (<<-805780, -3487780, -1297110, -3851080>> :> 67537) @@
    (<<-805780, -3487780, -805428, -3488130>> :> 55) @@
    (<<-805780, -3487780, -2290680, -4317290>> :> 187372) @@
    (<<-805780, -3487780, -2355050, -4663330>> :> 213008) @@
    (<<-2290680, -4317290, -1297110, -3851080>> :> 120955) @@
    (<<-2290680, -4317290, -805428, -3488130>> :> 187389) @@
    (<<-2290680, -4317290, -2290680, -4317290>> :> 0) @@
    (<<-2290680, -4317290, -2355050, -4663330>> :> 36075) @@
    (<<-2396080, -4633390, -1297110, -3851080>> :> 147349) @@
    (<<-2396080, -4633390, -805428, -3488130>> :> 214811) @@
    (<<-2396080, -4633390, -2290680, -4317290>> :> 34312) @@
    (<<-2396080, -4633390, -2355050, -4663330>> :> 5486) @@
    (<<-2355050, -4663330, -1297110, -3851080>> :> 145486) @@
    (<<-2355050, -4663330, -805428, -3488130>> :> 213018) @@
    (<<-2355050, -4663330, -2290680, -4317290>> :> 36075) @@
    (<<-2355050, -4663330, -2355050, -4663330>> :> 0) @@
    (<<-805428, -3488130, -1297110, -3851080>> :> 67547) @@
    (<<-805428, -3488130, -805428, -3488130>> :> 0) @@
    (<<-805428, -3488130, -2290680, -4317290>> :> 187389) @@
    (<<-805428, -3488130, -2355050, -4663330>> :> 213018)

\* def haversine_distance_km(lat1, lon1, lat2, lon2)
haversine_distance_km(lat1, lon1, lat2, lon2) == HaversineTable[<<lat1, lon1, lat2, lon2>>]

----------------------------------------------------------------------------
(* The match table *)

\* the days matches are played on
Dates == {1, 2, 4}

\* a row of matches_df without its id
MatchRow(d, rod, home, away, gh, ga, xh, xa, city) ==
    [data |-> d, rodada |-> rod, time_casa |-> home, time_fora |-> away,
     gols_casa |-> gh, gols_fora |-> ga, xG_casa |-> xh, xG_fora |-> xa,
     cidade_jogo |-> city]

\* rodada: an integer, a text or missing
IntRound(n) == [kind |-> "int", v |-> n, s |-> <<>>]
StrRound(t) == [kind |-> "str", v |-> 0, s |-> t]
NoRound == [kind |-> "none", v |-> 0, s |-> <<>>]

\* the i-th row's id: ids are unique and are not row positions
IdOf(i) == 100 + i

\* the table whose rows are f[1], f[2], ..., with unique ids
WithIds(f) == [i \in DOMAIN f |-> [id_partida |-> IdOf(i)] @@ f[i]]

\* matches is a table of at most n rows drawn from Rows
MatchesFrom(n, Rows) ==
    \E k \in 0..n : \E f \in [1..k -> Rows] : matches = WithIds(f)

Ids(table) == { table[i].id_partida : i \in 1..Len(table) }

\* the row of table with the given id (ids are unique)
RowOf(table, id) == table[CHOOSE i \in 1..Len(table) : table[i].id_partida = id]

\* the team of a match row on one side
SideTeam(row, side) == IF side = "home" THEN row.time_casa ELSE row.time_fora

\* df.copy()
Copy(df) == df

\* row.get(column): the value, or the default when the table has no such column
GetOr(row, column, default) ==
    IF column \in DOMAIN row THEN row[column] ELSE default

\* df[column] and row[column] succeed for these columns (they raise KeyError
\* for a column the table does not have); a table without rows is taken to
\* have every column
HasColumns(df, columns) == df = <<>> \/ columns \subseteq DOMAIN df[1]

\* df.sort_values("data"): a single-key sort runs numpy's quicksort, which
\* fixes the order of equal dates by no rule; any date-sorted order can come out
SortedOrders(df) ==
    IF ~HasColumns(df, {"data"}) THEN { [i \in 1..Len(df) |-> i] }
    ELSE { p \in Permutations(1..Len(df)) :
             \A i, j \in 1..Len(df) : i < j => df[p[i]].data <= df[p[j]].data }

Reorder(df, order) == [i \in 1..Len(df) |-> df[order[i]]]

\* the sort is a fixed algorithm: one build orders the rows of equal dates by a
\* rule of its own, the same at every call.  Two such rules: the input order
\* (what a stable sort does) and its reverse
TieRules == {"input_order", "reverse_order"}

\* a mutant: a sort whose order of equal dates changes from one run to the next
TieOrderPerRun(df, rule) ==
    CHOOSE p \in SortedOrders(df) :
        \A i, j \in 1..Len(df) :
            (i < j /\ df[p[i]].data = df[p[j]].data) =>
                IF rule = "input_order" /\ first.order = <<>> THEN p[i] < p[j]
                ELSE p[i] > p[j]

\* the order df.sort_values("data") leaves under one rule
TieOrder(df, rule) ==
    CHOOSE p \in SortedOrders(df) :
        \A i, j \in 1..Len(df) :
            (i < j /\ df[p[i]].data = df[p[j]].data) =>
                IF rule = "input_order" THEN p[i] < p[j] ELSE p[i] > p[j]

----------------------------------------------------------------------------
(* compute_travel_distance *)

\* a mutant: the built-in table is asked first
ResolveTeamCoordsStaticFirst(team, teams_info_df) ==
    IF team \in DOMAIN TEAM_COORDINATES
    THEN Some(<<TEAM_COORDINATES[team].lat, TEAM_COORDINATES[team].lon>>)
    ELSE IF \E n \in 1..Len(teams_info_df.rows) :
                Lower(teams_info_df.rows[n].nome_time) = Lower(team)
    THEN LET n == CHOOSE x \in 1..Len(teams_info_df.rows) :
                      Lower(teams_info_df.rows[x].nome_time) = Lower(team)
         IN  Some(<<teams_info_df.rows[n].latitude, teams_info_df.rows[n].longitude>>)
    ELSE None

\* def _resolve_team_coords(team, teams_info)
_resolve_team_coords(team, teams_info_df) ==
    LET row == SelectSeq(teams_info_df.rows,
                         LAMBDA r : Lower(r.nome_time) = Lower(team))
    IN  IF teams_info_df.kind # "none" /\ teams_info_df.rows # <<>> /\ row # <<>>
        THEN Some(<<row[1].latitude, row[1].longitude>>)
        ELSE IF team \in DOMAIN TEAM_COORDINATES
        THEN Some(<<TEAM_COORDINATES[team].lat, TEAM_COORDINATES[team].lon>>)
        ELSE None

\* def _resolve_city_coords(city, capital_hint); capital_hint is optional
_resolve_city_coords(city, capital_hint) ==
    IF capital_hint = None \/ Val(capital_hint) = <<>> THEN None
    ELSE LET state == Upper(Val(capital_hint))
         IN  IF state \in DOMAIN CAPITAL_COORDINATES
             THEN Some(<<CAPITAL_COORDINATES[state].lat, CAPITAL_COORDINATES[state].lon>>)
             ELSE None

\* city_field in city_state_map, for a dict that is passed and not empty
InCityMap(map, city_field) ==
    /\ map.kind # "none"
    /\ \E n \in 1..Len(map.rows) : map.rows[n].city = city_field

CityMapAt(map, city_field) ==
    map.rows[CHOOSE n \in 1..Len(map.rows) : map.rows[n].city = city_field].state

\* lines 79-86: the optional city_hint and state_hint of a row
CityHints(city_field, map) ==
    IF Contains(city_field, <<"-">>)
    THEN LET cut == LastIndexOf(city_field, "-")
         IN  [city_hint |-> Some(Strip(SubSeq(city_field, 1, cut - 1))),
              state_hint |-> Some(Strip(SubSeq(city_field, cut + 1, Len(city_field))))]
    ELSE IF InCityMap(map, city_field)
    THEN [city_hint |-> None, state_hint |-> Some(CityMapAt(map, city_field))]
    ELSE [city_hint |-> None, state_hint |-> None]

\* lines 91-100: the value of one side of a row
TravelOf(team, teams_info_df, city_hint, match_coords) ==
    LET base_coords == _resolve_team_coords(team, teams_info_df)
    IN  IF base_coords = None \/ match_coords = None THEN None
        ELSE IF city_hint # None /\ Val(city_hint) # <<>>
                /\ Contains(normalize_team_name(Val(city_hint)), normalize_team_name(team))
        THEN Some(0)
        ELSE Some(haversine_distance_km(Val(base_coords)[1], Val(base_coords)[2],
                                        Val(match_coords)[1], Val(match_coords)[2]))

\* `city_hint or city_field`
CityArg(hints, city_field) ==
    IF hints.city_hint # None /\ Val(hints.city_hint) # <<>>
    THEN Val(hints.city_hint) ELSE city_field

\* def compute_travel_distance(matches_df, teams_info_df, city_state_map)
compute_travel_distance(matches_df, teams_info_df, map) ==
    IF ~HasColumns(matches_df, {"time_casa", "time_fora"})
    THEN [raised |-> TRUE, ret |-> <<>>, arg |-> matches_df, aux |-> teams_info_df]
    ELSE
    Only({ [raised |-> FALSE,
            ret |-> [i \in 1..Len(df) |->
                       Only({ [travel_km_home |->
                                  TravelOf(df[i].time_casa, teams_info_df,
                                           hints.city_hint, match_coords),
                               travel_km_away |->
                                  TravelOf(df[i].time_fora, teams_info_df,
                                           hints.city_hint, match_coords)] @@ df[i]
                              : hints \in { CityHints(GetOr(df[i], "cidade_jogo", <<>>), map) },
                                match_coords \in
                                  { _resolve_city_coords(
                                        CityArg(h, GetOr(df[i], "cidade_jogo", <<>>)),
                                        h.state_hint)
                                    : h \in { CityHints(GetOr(df[i], "cidade_jogo", <<>>),
                                                        map) } } })],
            arg |-> matches_df,
            aux |-> teams_info_df]
           : df \in { Copy(matches_df) } })

----------------------------------------------------------------------------
(* compute_rest_days *)

\* a mutant: only the home team's clock is reset
UpdateLastPlayedHomeOnly(last_played, home, away, match_date) ==
    [t \in (DOMAIN last_played) \cup {home} |->
        IF t = home THEN match_date ELSE last_played[t]]

\* last_played[home] = match_date; last_played[away] = match_date
UpdateLastPlayed(last_played, home, away, match_date) ==
    [t \in (DOMAIN last_played) \cup {home, away} |->
        IF t \in {home, away} THEN match_date ELSE last_played[t]]

\* (match_date - last_played[team]).days if team in last_played else None
RestOf(last_played, team, match_date) ==
    IF team \in DOMAIN last_played THEN Some(match_date - last_played[team]) ELSE None

\* the loop over df.iterrows(), from row i on
RECURSIVE RestScan(_, _, _)
RestScan(df, i, last_played) ==
    IF i > Len(df) THEN <<>>
    ELSE LET row == df[i]
             new == [rest_days_home |-> RestOf(last_played, row.time_casa, row.data),
                     rest_days_away |-> RestOf(last_played, row.time_fora, row.data)]
         IN  <<new @@ row>> \o
             RestScan(df, i + 1,
                      UpdateLastPlayed(last_played, row.time_casa, row.time_fora, row.data))

\* a mutant: the sort is done on the caller's table, with no copy taken
RestDaysArgInPlace(matches_df, order) == Reorder(matches_df, order)

\* the caller's table after compute_rest_days: the stage works on a copy
RestDaysArg(matches_df, order) == matches_df

\* def compute_rest_days(matches_df); order is the order the sort leaves
compute_rest_days(matches_df, order) ==
    IF ~HasColumns(matches_df, {"data", "time_casa", "time_fora"})
    THEN [raised |-> TRUE, ret |-> <<>>, arg |-> matches_df]
    ELSE LET df == Reorder(Copy(matches_df), order)
         IN  [raised |-> FALSE, ret |-> RestScan(df, 1, <<>>),
              arg |-> RestDaysArg(matches_df, order)]

----------------------------------------------------------------------------
(* compute_rolling_stats *)

\* Python's str comparison, by code point
CharOrder == <<" ", "-", ".", "0", "1", "2", "3", "4", "5", "6", "7", "8", "9">>
             \o UpperChars \o LowerChars
CharCode(c) == CHOOSE i \in 1..Len(CharOrder) : CharOrder[i] = c
RECURSIVE StrLess(_, _)
StrLess(a, b) ==
    IF b = <<>> THEN FALSE
    ELSE IF a = <<>> THEN TRUE
    ELSE IF Head(a) = Head(b) THEN StrLess(Tail(a), Tail(b))
    ELSE CharCode(Head(a)) < CharCode(Head(b))

\* the two observations a match row is reshaped into (lines 147-170)
HomeObs(row) ==
    [id_partida |-> row.id_partida, team |-> row.time_casa,
     goals_for |-> row.gols_casa, goals_against |-> row.gols_fora,
     xg_for |-> row.xG_casa, xg_against |-> row.xG_fora,
     data |-> row.data, side |-> "home"]
AwayObs(row) ==
    [id_partida |-> row.id_partida, team |-> row.time_fora,
     goals_for |-> row.gols_fora, goals_against |-> row.gols_casa,
     xg_for |-> row.xG_fora, xg_against |-> row.xG_casa,
     data |-> row.data, side |-> "away"]

RECURSIVE LongRows(_, _)
LongRows(df, i) ==
    IF i > Len(df) THEN <<>>
    ELSE <<HomeObs(df[i]), AwayObs(df[i])>> \o LongRows(df, i + 1)

\* the sort key ["team", "data"]
TeamDateLess(a, b) ==
    \/ StrLess(a.team, b.team)
    \/ a.team = b.team /\ a.data < b.data

\* sort_values on two keys is a lexsort, which is stable: a row goes behind
\* every row whose key is not greater
RECURSIVE InsertByTeamDate(_, _)
InsertByTeamDate(x, sorted) ==
    IF sorted = <<>> THEN <<x>>
    ELSE IF TeamDateLess(x, Head(sorted)) THEN <<x>> \o sorted
    ELSE <<Head(sorted)>> \o InsertByTeamDate(x, Tail(sorted))

RECURSIVE SortByTeamDate(_, _)
SortByTeamDate(rows, done) ==
    IF rows = <<>> THEN done
    ELSE SortByTeamDate(Tail(rows), InsertByTeamDate(Head(rows), done))

RECURSIVE Gcd(_, _)
Gcd(a, b) == IF b = 0 THEN a ELSE Gcd(b, a % b)

\* sum / count as a fraction in lowest terms
Fraction(sum, count) == <<sum \div Gcd(sum, count), count \div Gcd(sum, count)>>

RECURSIVE SumOf(_)
SumOf(values) == IF values = <<>> THEN 0 ELSE Head(values) + SumOf(Tail(values))

IsPresent(o) == o # None

\* Rolling.mean() with min_periods=1 over one window: the missing values of
\* the window are skipped, and the result is missing when none is left
WindowMean(window_values) ==
    LET present == SelectSeq(window_values, IsPresent)
    IN  IF Len(present) < 1 THEN None
        ELSE Some(Fraction(SumOf([i \in 1..Len(present) |-> Val(present[i])]),
                           Len(present)))

\* a mutant: no shift, the window ends at the current observation
\* (series.rolling(window, min_periods=1).mean())
RollingMeanUnshifted(series, window) ==
    [k \in 1..Len(series) |->
        WindowMean(SubSeq(series, IF k - window + 1 < 1 THEN 1 ELSE k - window + 1, k))]

\* def _rolling_mean_shifted(series, window):
\* series.shift(1).rolling(window=window, min_periods=1).mean()
_rolling_mean_shifted(series, window) ==
    LET shifted == <<None>> \o SubSeq(series, 1, Len(series) - 1)
    IN  [k \in 1..Len(series) |->
            WindowMean(SubSeq(shifted, IF k - window + 1 < 1 THEN 1 ELSE k - window + 1, k))]

Metrics == <<"goals_for", "goals_against", "xg_for", "xg_against">>

\* the positions of long_df that hold the rows of one team, in long_df's order
GroupPositions(long_df, team) ==
    SelectSeq([q \in 1..Len(long_df) |-> q], LAMBDA q : long_df[q].team = team)

\* long_df.groupby("team")[metric].transform(lambda s: _rolling_mean_shifted(s, window))
\* for one team: the rolled series of each metric, in the group's order
GroupTransform(long_df, team, window) ==
    Only({ [m \in { Metrics[i] : i \in 1..4 } |->
               _rolling_mean_shifted([n \in 1..Len(pos) |-> long_df[pos[n]][m]], window)]
           : pos \in { GroupPositions(long_df, team) } })

\* the four *_roll columns of long_df (lines 174-177)
WithRolls(long_df, window) ==
    Only({ [p \in 1..Len(long_df) |->
               LET k == Cardinality({ q \in 1..p : long_df[q].team = long_df[p].team })
                   mine == rolled[long_df[p].team]
               IN  [goals_for_roll |-> mine["goals_for"][k],
                    goals_against_roll |-> mine["goals_against"][k],
                    xg_for_roll |-> mine["xg_for"][k],
                    xg_against_roll |-> mine["xg_against"][k]] @@ long_df[p]]
           : rolled \in { [t \in { long_df[q].team : q \in 1..Len(long_df) } |->
                              GroupTransform(long_df, t, window)] } })

\* the name add_suffix gives a *_roll column
RolledName(metric, window, side) ==
    metric \o "_roll" \o "_last" \o ToString(window) \o "_" \o side

\* long_df[long_df["side"] == side].set_index("id_partida")[...].add_suffix(...),
\* looked up for one id by the left join (ids are unique)
SideStats(long_df, side, window, id) ==
    LET p == CHOOSE q \in 1..Len(long_df) :
                 long_df[q].side = side /\ long_df[q].id_partida = id
    IN  (RolledName("goals_for", window, side) :> long_df[p].goals_for_roll) @@
        (RolledName("goals_against", window, side) :> long_df[p].goals_against_roll) @@
        (RolledName("xg_for", window, side) :> long_df[p].xg_for_roll) @@
        (RolledName("xg_against", window, side) :> long_df[p].xg_against_roll)

\* def compute_rolling_stats(matches_df, window)
compute_rolling_stats(matches_df, window) ==
    IF ~HasColumns(matches_df, {"data", "id_partida", "time_casa", "time_fora"})
    THEN [raised |-> TRUE, ret |-> <<>>, arg |-> matches_df]
    ELSE
    Only({ [raised |-> FALSE,
            ret |-> [i \in 1..Len(df) |->
                       df[i] @@ SideStats(long_df, "home", window, df[i].id_partida)
                             @@ SideStats(long_df, "away", window, df[i].id_partida)],
            arg |-> matches_df]
           : df \in { Copy(matches_df) },
             long_df \in { WithRolls(sorted, window)
                            : sorted \in { SortByTeamDate(LongRows(matches_df, 1), <<>>) } } })

----------------------------------------------------------------------------
(* compute_key_players *)

\* team_matches after the loop over df.sort_values("data"): the ids of the
\* matches of a team, in the order the sort leaves (lines 219-223)
TeamMatches(sorted_df, team) ==
    Only({ [n \in 1..Len(pos) |-> sorted_df[pos[n]].id_partida]
           : pos \in { SelectSeq([q \in 1..Len(sorted_df) |-> q],
                                  LAMBDA q : team \in {sorted_df[q].time_casa,
                                                        sorted_df[q].time_fora}) } })

\* match_date_map[mid]
MatchDate(df, mid) == RowOf(df, mid).data

\* a mutant: matches of the same date count as history (<= instead of <)
HistoryIdsSameDate(df, team_matches, match_date) ==
    SelectSeq(team_matches, LAMBDA mid : MatchDate(df, mid) <= match_date)

\* history_ids = [mid for mid in team_matches.get(team, [])
\*                if match_date_map[mid] < match_date]
HistoryIds(df, team_matches, match_date) ==
    SelectSeq(team_matches, LAMBDA mid : MatchDate(df, mid) < match_date)

\* history_ids[-window:]
RecentIds(history_ids, window) == Last(history_ids, window)

InSeq(x, seq) == \E n \in 1..Len(seq) : seq[n] = x

\* recent.groupby("id_jogador")[["gols", "assistencias"]].sum().reset_index(),
\* with score = gols + assistencias: one row per player, by ascending id
RECURSIVE GroupedFrom(_, _)
GroupedFrom(recent, players) ==
    IF players = {} THEN <<>>
    ELSE LET pid == CHOOSE x \in players : \A y \in players : x <= y
             rows == SelectSeq(recent, LAMBDA r : r.id_jogador = pid)
             gols == SumOf([n \in 1..Len(rows) |-> rows[n].gols])
             assistencias == SumOf([n \in 1..Len(rows) |-> rows[n].assistencias])
         IN  <<[id_jogador |-> pid, gols |-> gols, assistencias |-> assistencias,
                score |-> gols + assistencias]>>
             \o GroupedFrom(recent, players \ {pid})

\* a mutant: the ranking ignores the goals tie-break (sort_values("score"))
RanksBelowScoreOnly(a, b) == a.score < b.score

\* the sort key ["score", "gols"], ascending=False: a ranks below b
RanksBelow(a, b) ==
    \/ a.score < b.score
    \/ a.score = b.score /\ a.gols < b.gols

\* the two-key sort is stable: a row goes behind every row that does not rank
\* below it
RECURSIVE InsertByRank(_, _)
InsertByRank(x, sorted) ==
    IF sorted = <<>> THEN <<x>>
    ELSE IF RanksBelow(Head(sorted), x) THEN <<x>> \o sorted
    ELSE <<Head(sorted)>> \o InsertByRank(x, Tail(sorted))

RECURSIVE SortByRank(_, _)
SortByRank(rows, done) ==
    IF rows = <<>> THEN done
    ELSE SortByRank(Tail(rows), InsertByRank(Head(rows), done))

\* .head(top_n)
HeadRows(rows, n) == IF Len(rows) <= n THEN rows ELSE SubSeq(rows, 1, n)

\* the list stored for one match and side (lines 234-264)
KeyPlayersOf(df, player_stats_df, sorted_df, match, team, window, top_n) ==
    Only({ IF recent = <<>> THEN <<>>
           ELSE HeadRows(
                    SortByRank(
                        GroupedFrom(recent,
                                    { recent[n].id_jogador : n \in 1..Len(recent) }),
                        <<>>),
                    top_n)
           : recent \in
               { SelectSeq(player_stats_df,
                           LAMBDA r : r.time = team /\ InSeq(r.id_partida, recent_ids))
                 : recent_ids \in
                     { RecentIds(HistoryIds(df, TeamMatches(sorted_df, team), match.data),
                                 window) } } })

\* def compute_key_players(matches_df, player_stats_df, window, top_n); order
\* is the order df.sort_values("data") leaves.  A player_stats_df of None has
\* no .copy(), and a frame with no "time" column has no such key: both raise
compute_key_players(matches_df, player_stats_df, window, top_n, order) ==
    IF \/ player_stats_df.kind # "frame"
       \/ ~HasColumns(matches_df, {"data", "id_partida", "time_casa", "time_fora"})
    THEN [raised |-> TRUE, ret |-> <<>>, arg |-> matches_df, aux |-> player_stats_df]
    ELSE Only({ [raised |-> FALSE,
                 ret |-> [i \in 1..Len(df) |->
                            [key_players_home |->
                                KeyPlayersOf(df, player_stats_df.rows, sorted_df, df[i],
                                             df[i].time_casa, window, top_n),
                             key_players_away |->
                                KeyPlayersOf(df, player_stats_df.rows, sorted_df, df[i],
                                             df[i].time_fora, window, top_n)] @@ df[i]],
                 arg |-> matches_df,
                 aux |-> player_stats_df]
                : df \in { Copy(matches_df) },
                  sorted_df \in { Reorder(matches_df, order) } })

----------------------------------------------------------------------------
(* compute_importance_score *)

\* ImportanceParams defaults
high_round_threshold == 28
g4_cutoff == 4
z4_cutoff == 17

ImportanceParams ==
    [high_round_threshold |-> high_round_threshold,
     g4_cutoff |-> g4_cutoff, z4_cutoff |-> z4_cutoff]

\* a mutant: a textual round is never read as a number
ParsedRoundIntOnly(rodada) ==
    IF rodada.kind = "int" THEN Some(rodada.v) ELSE None

\* lines 297-301: the round as an optional integer
ParsedRound(rodada) ==
    IF rodada.kind = "none" THEN None
    ELSE IF rodada.kind = "str"
    THEN LET digits == SelectSeq(rodada.s, LAMBDA ch : ch \in DigitChars)
         IN  IF digits # <<>> THEN Some(ParseInt(digits)) ELSE None
    ELSE Some(rodada.v)

\* round(x, 3) of x = numerator / denominator >= 0, in thousandths.  A tie
\* arises only at 0.0625, 0.0125, 0.0025 and 0.0005: the first is exact in
\* binary and goes to the even digit, the doubles of the others lie above the tie
Round3(numerator, denominator) ==
    LET q == (1000 * numerator) \div denominator
        r == (1000 * numerator) % denominator
    IN  IF 2 * r < denominator THEN q
        ELSE IF 2 * r > denominator THEN q + 1
        ELSE IF q = 62 THEN q ELSE q + 1

Max0(x) == IF x > 0 THEN x ELSE 0

\* a mutant: the gaps are not clamped at zero
ScoreOfUnclamped(pontos, g4_pontos, z4_pontos, rodada, params) ==
    LET gap_g4 == g4_pontos - pontos
        gap_z4 == pontos - z4_pontos
        slack == IF 1 + gap_g4 + gap_z4 <= 0 THEN 1 ELSE 1 + gap_g4 + gap_z4
    IN  IF rodada >= params.high_round_threshold
        THEN Round3(1, slack)
        ELSE Round3(1, 2 * slack)

\* lines 313-317: tension * stage_factor rounded, in thousandths
ScoreOf(pontos, g4_pontos, z4_pontos, rodada, params) ==
    LET gap_g4 == g4_pontos - pontos
        gap_z4 == pontos - z4_pontos
    IN  IF rodada >= params.high_round_threshold
        THEN Round3(1, 1 + Max0(gap_g4) + Max0(gap_z4))
        ELSE Round3(1, 2 * (1 + Max0(gap_g4) + Max0(gap_z4)))

\* def team_score(team, rodada), over the rows of standings_df
team_score(rows, team, rodada, params) ==
    IF ParsedRound(rodada) = None THEN None
    ELSE LET round == Val(ParsedRound(rodada))
             table == SelectSeq(rows, LAMBDA r : r.rodada = round)
             team_row == SelectSeq(table, LAMBDA r : Lower(r.time) = Lower(team))
             g4_row == SelectSeq(table, LAMBDA r : r.posicao = params.g4_cutoff)
             z4_row == SelectSeq(table, LAMBDA r : r.posicao = params.z4_cutoff)
         IN  IF table = <<>> THEN None
             ELSE IF team_row = <<>> THEN None
             ELSE IF g4_row = <<>> \/ z4_row = <<>> THEN None
             ELSE Some(ScoreOf(team_row[1].pontos, g4_row[1].pontos, z4_row[1].pontos,
                               round, params))

\* def compute_importance_score(matches_df, standings_df, params)
compute_importance_score(matches_df, standings_df, params) ==
    IF /\ ~(standings_df.kind = "none" \/ standings_df.rows = <<>>)
       /\ ~HasColumns(matches_df, {"time_casa", "time_fora"})
    THEN [raised |-> TRUE, ret |-> <<>>, arg |-> matches_df, aux |-> standings_df]
    ELSE
    Only({ [raised |-> FALSE,
            ret |-> IF standings_df.kind = "none" \/ standings_df.rows = <<>>
                    THEN [i \in 1..Len(df) |->
                            [importance_home |-> None, importance_away |-> None] @@ df[i]]
                    ELSE [i \in 1..Len(df) |->
                            [importance_home |->
                                team_score(standings_df.rows, df[i].time_casa,
                                           GetOr(df[i], "rodada", NoRound), params),
                             importance_away |->
                                team_score(standings_df.rows, df[i].time_fora,
                                           GetOr(df[i], "rodada", NoRound), params)] @@ df[i]],
            arg |-> matches_df,
            aux |-> standings_df]
           : df \in { Copy(matches_df) } })

----------------------------------------------------------------------------
(* The inputs a call starts from *)

Teams == {Bahia, Sport, Vasco}
TeamPairs == { p \in Teams \X Teams : p[1] # p[2] }

NoArgs == [window |-> 0, top_n |-> 0]

\* rows whose dates and teams vary
RestRows ==
    { MatchRow(d, IntRound(1), p[1], p[2], Some(0), Some(0), None, None, <<>>) :
        d \in Dates, p \in TeamPairs }

\* no run of a chain of stages before this one
NoRun == [order |-> <<>>, table |-> <<>>]

\* the variables of a chain of stages
Chain == <<tie_rule, applied, first>>

NoChain == tie_rule = "input_order" /\ applied = <<>> /\ first = NoRun

----------------------------------------------------------------------------
(* The harvester *)

\* the harvest_seasons calls of one day: the threaded server of api/app.py
\* runs each POST /harvest in a thread of its own
Harvesters == {1, 2}

\* the ids of the fixtures the API knows
FixtureIds == {1, 2}

\* harvester.py 234-238
competitions == <<"Serie A", "Copa do Brasil", "Libertadores">>

\* what GET /fixtures may answer: nothing, one fixture, the same fixture twice,
\* two fixtures
ApiFixtureLists == {<<>>, <<1>>, <<1, 1>>, <<1, 2>>}

\* harvester.py 150-163: Serie A keeps every fixture; a cup keeps a fixture
\* or not, by its round and its teams
allowed_competition(campeonato) ==
    IF campeonato = "Serie A" THEN {TRUE} ELSE BOOLEAN

\* harvester.py 166-189, the columns the harvest decides on
fixture_to_row(fixture_id, campeonato) ==
    [id_partida |-> fixture_id, campeonato |-> campeonato]

\* harvester.py 88-90: RequestQuota.remaining
remaining(count) == IF daily_limit - count > 0 THEN daily_limit - count ELSE 0

\* harvester.py 96-101, RequestQuota.consume: whether the requests were granted, and the new count
consume(count, amount) ==
    IF remaining(count) < amount
    THEN [ok |-> FALSE, count |-> count]
    ELSE [ok |-> TRUE, count |-> count + amount]

\* db.py 59-63
match_exists(table, fixture_id) ==
    \E n \in 1..Len(table) : table[n].id_partida = fixture_id

\* db.py 66-70
player_stats_exists(stored, fixture_id) == fixture_id \in stored

\* a mutant: INSERT in place of INSERT OR IGNORE
insert_matches_always(table, rows) == table \o rows

\* db.py 73-83: INSERT OR IGNORE, row by row, on the primary key id_partida
RECURSIVE insert_matches(_, _)
insert_matches(table, rows) ==
    IF rows = <<>> THEN table
    ELSE insert_matches(IF match_exists(table, Head(rows).id_partida)
                        THEN table ELSE Append(table, Head(rows)),
                        Tail(rows))

\* inserted_matches is the counter of harvest_single_season, season_summaries
\* the inserted_matches of each summary harvest_seasons returns, rows_added the
\* rows the call has added to the table matches
Idle ==
    [pc |-> "idle", include_player_stats |-> FALSE, count |-> 0, competition |-> 1,
     fixtures |-> <<>>, pending_rows |-> <<>>,
     inserted_matches |-> 0, season_summaries |-> <<>>, rows_added |-> 0]

\* nothing harvested: no quota file, empty tables
NoHarvest ==
    /\ quota_log = 0
    /\ harvest = [h \in Harvesters |-> Idle]
    /\ http_requests = 0
    /\ db_matches = <<>>
    /\ db_player_stats = {}
    /\ teams_seeded = FALSE

Harvesting ==
    <<quota_log, harvest, http_requests, db_matches, db_player_stats, teams_seeded>>

NotYetCalled ==
    called = "none" /\ args = NoArgs /\ out = <<>> /\ raised = FALSE /\ NoChain

NoAuxiliary ==
    /\ teams_info = NoTable
    /\ city_state_map = NoTable
    /\ player_stats = Frame(<<>>)
    /\ standings = NoTable

InitRestN(n) == MatchesFrom(n, RestRows) /\ NoAuxiliary /\ NotYetCalled /\ NoHarvest

InitRest == InitRestN(MaxMatches)

\* goals and expected goals of a match: home goals, away goals, home xG, away xG
Scores ==
    { <<None, None, None, None>>,
      <<Some(1), Some(0), Some(150), None>>,
      <<Some(2), Some(3), Some(80), Some(120)>> }

\* rows whose dates, teams and scores vary; Sport plays every match
RollRows ==
    { MatchRow(d, IntRound(1), p[1], p[2], sc[1], sc[2], sc[3], sc[4], <<>>) :
        d \in Dates, p \in {<<Bahia, Sport>>, <<Sport, Vasco>>}, sc \in Scores }

InitRollN(n) == MatchesFrom(n, RollRows) /\ NoAuxiliary /\ NotYetCalled /\ NoHarvest

InitRoll == InitRollN(MaxMatches)

\* rows whose dates and teams vary; Sport plays every match
KeyRows ==
    { MatchRow(d, IntRound(1), p[1], p[2], Some(0), Some(0), None, None, <<>>) :
        d \in Dates, p \in {<<Bahia, Sport>>, <<Sport, Vasco>>} }

\* what the players of a match did: <<player id, side, goals, assists>>
StatPatterns ==
    { << <<1, "home", 1, 0>>, <<2, "home", 0, 1>>, <<3, "away", 1, 1>> >>,
      << <<1, "home", 0, 1>>, <<2, "home", 1, 1>>, <<3, "away", 0, 2>>,
         <<4, "away", 2, 0>> >> }

\* the rows of player_stats_df for one match
StatRows(match, pattern) ==
    [n \in 1..Len(pattern) |->
        [id_partida |-> match.id_partida,
         id_jogador |-> pattern[n][1],
         time |-> SideTeam(match, pattern[n][2]),
         gols |-> pattern[n][3],
         assistencias |-> pattern[n][4]]]

RECURSIVE StatTable(_, _, _)
StatTable(table, patterns, i) ==
    IF i > Len(table) THEN <<>>
    ELSE StatRows(table[i], patterns[i]) \o StatTable(table, patterns, i + 1)

InitKeyN(n) ==
    /\ \E k \in 0..n : \E f \in [1..k -> KeyRows] : \E g \in [1..k -> StatPatterns] :
          /\ matches = WithIds(f)
          /\ player_stats = Frame(StatTable(WithIds(f), g, 1))
    /\ teams_info = NoTable
    /\ city_state_map = NoTable
    /\ standings = NoTable
    /\ NotYetCalled /\ NoHarvest

InitKey == InitKeyN(MaxMatches)

\* city fields
SantosSP == <<"S","a","n","t","o","s","-","S","P">>
SportZZ == <<"S","p","o","r","t"," ","-"," ","z","z">>
RecifePE == <<"R","e","c","i","f","e","-","p","e">>
MogiMirim == <<"M","o","g","i","-","M","i","r","i","m">>

\* rows whose teams, in several spellings, and cities vary
TravelRows ==
    { MatchRow(1, IntRound(1), p[1], p[2], Some(0), Some(0), None, None, c) :
        p \in {<<Santos, Sport>>, <<santos, Vasco>>, <<SantosFC, Sport>>},
        c \in {SantosSP, Santos, SportZZ, RecifePE, MogiMirim, <<>>} }

\* the override tables a caller passes
TeamsInfoTables ==
    { NoTable,
      Frame(<<>>),
      Frame(<<[nome_time |-> SANTOS, latitude |-> -2355050, longitude |-> -4663330]>>),
      Frame(<<[nome_time |-> Vasco, latitude |-> -805428, longitude |-> -3488130],
              [nome_time |-> SantosFC, latitude |-> -2355050, longitude |-> -4663330],
              [nome_time |-> SANTOS, latitude |-> -805428, longitude |-> -3488130]>>) }

CityStateMaps ==
    { NoTable,
      Frame(<<[city |-> Santos, state |-> <<"S","P">>],
              [city |-> MogiMirim, state |-> <<"s","p">>]>>) }

InitTravelN(n) ==
    /\ MatchesFrom(n, TravelRows)
    /\ teams_info \in TeamsInfoTables
    /\ city_state_map \in CityStateMaps
    /\ player_stats = Frame(<<>>)
    /\ standings = NoTable
    /\ NotYetCalled /\ NoHarvest

InitTravel == InitTravelN(SmallMatches)

Rodada28 == <<"R","o","d","a","d","a"," ","2","8">>
Final == <<"f","i","n","a","l">>

\* rows whose round varies
ImportanceRows ==
    { MatchRow(1, rod, Bahia, Sport, Some(0), Some(0), None, None, <<>>) :
        rod \in { IntRound(27), IntRound(28), StrRound(Rodada28), StrRound(Final),
                  NoRound } }

\* the points of a standings row, or no row
MaybePts == { None } \cup { Some(x) : x \in 0..MaxPts }

\* the standings of one round: Vasco at the G4 rank, Sport at the Z4 rank and
\* Bahia in between, each row present or not
RoundRows(round, g4, z4, mid) ==
    (IF g4 = None THEN <<>>
     ELSE <<[rodada |-> round, time |-> Vasco, posicao |-> g4_cutoff, pontos |-> Val(g4)]>>)
    \o (IF mid = None THEN <<>>
        ELSE <<[rodada |-> round, time |-> BAHIA, posicao |-> 10, pontos |-> Val(mid)]>>)
    \o (IF z4 = None THEN <<>>
        ELSE <<[rodada |-> round, time |-> Sport, posicao |-> z4_cutoff, pontos |-> Val(z4)]>>)

StandingsTables ==
    { NoTable } \cup
    { Frame((IF both THEN RoundRows(27, g4, z4, mid) ELSE <<>>)
            \o RoundRows(28, g4, z4, mid)) :
        both \in BOOLEAN, g4 \in MaybePts, z4 \in MaybePts, mid \in MaybePts }

InitImportanceN(n) ==
    /\ MatchesFrom(n, ImportanceRows)
    /\ standings \in StandingsTables
    /\ teams_info = NoTable
    /\ city_state_map = NoTable
    /\ player_stats = Frame(<<>>)
    /\ NotYetCalled /\ NoHarvest

InitImportance == InitImportanceN(SmallMatches)

\* rows of a table passed to every stage
AnyRows ==
    { MatchRow(d, rod, Santos, Sport, Some(1), Some(0), None, None, c) :
        d \in {1, 2}, rod \in {IntRound(28)}, c \in {SantosSP, <<>>} }

\* every auxiliary table absent, empty or filled
InitAuxiliaryN(n) ==
    /\ \E k \in 0..n : \E f \in [1..k -> AnyRows] :
          /\ matches = WithIds(f)
          /\ player_stats \in
                { NoTable, NoColumns, Frame(<<>>),
                  Frame(StatTable(WithIds(f),
                                  [i \in 1..k |-> << <<1, "home", 1, 0>>, <<3, "away", 1, 1>> >>],
                                  1)) }
    /\ teams_info \in TeamsInfoTables
    /\ city_state_map = NoTable
    /\ standings \in
          { NoTable, Frame(<<>>),
            Frame(RoundRows(28, Some(2), Some(0), None)
                  \o <<[rodada |-> 28, time |-> santos, posicao |-> 9, pontos |-> 1]>>) }
    /\ NotYetCalled /\ NoHarvest

Init == InitKeyN(SmallMatches) \/ InitAuxiliaryN(SmallMatches)

\* rows of a table a caller chains the stages on: two fixtures, each on one of
\* two days, so that a team can play twice on one day
ChainRows ==
    { MatchRow(d, IntRound(28), Sport, Vasco, Some(1), Some(0), Some(150), None, RecifePE)
        : d \in {1, 2} } \cup
    { MatchRow(d, IntRound(28), Bahia, Sport, Some(2), Some(3), Some(80), Some(120), RecifePE)
        : d \in {1, 2} }

\* what the four players of every match of a chained table did
ChainPattern ==
    << <<1, "home", 0, 1>>, <<2, "home", 1, 1>>, <<3, "away", 0, 2>>, <<4, "away", 2, 0>> >>

\* a caller about to chain the stages on a table, with a window of its choice,
\* on a build with one of the tie rules
InitChainN(n) ==
    /\ \E k \in 0..n : \E f \in [1..k -> ChainRows] :
          /\ matches = WithIds(f)
          /\ player_stats = Frame(StatTable(WithIds(f), [i \in 1..k |-> ChainPattern], 1))
    /\ teams_info = NoTable
    /\ city_state_map = NoTable
    /\ standings = Frame(RoundRows(28, Some(2), Some(0), Some(1)))
    /\ called = "none"
    /\ \E window \in 1..MaxWindow : args = [window |-> window, top_n |-> MaxTopN]
    /\ out = <<>>
    /\ raised = FALSE
    /\ tie_rule \in TieRules
    /\ applied = <<>>
    /\ first = NoRun
    /\ NoHarvest

InitChain == InitChainN(SmallMatches)

\* the columns one of which a structurally invalid table lacks
DroppedColumns ==
    {"id_partida", "data", "rodada", "time_casa", "time_fora", "cidade_jogo"}

\* a row without one of its columns
Without(row, column) == [c \in (DOMAIN row) \ {column} |-> row[c]]

\* a match table that lacks one column, with every auxiliary table filled
InitInvalidN(n) ==
    /\ \E k \in 1..n : \E f \in [1..k -> AnyRows] : \E column \in DroppedColumns :
          /\ matches = [i \in 1..k |-> Without(WithIds(f)[i], column)]
          /\ player_stats = Frame(StatTable(WithIds(f), [i \in 1..k |-> ChainPattern], 1))
    /\ teams_info = NoTable
    /\ city_state_map = NoTable
    /\ standings = Frame(RoundRows(28, Some(2), Some(0), None)
                          \o <<[rodada |-> 28, time |-> santos, posicao |-> 9, pontos |-> 1]>>)
    /\ NotYetCalled /\ NoHarvest

InitInvalid == InitInvalidN(SmallMatches)

----------------------------------------------------------------------------
(* The calls *)

Inputs == <<teams_info, city_state_map, player_stats, standings>>

ComputeRestDays ==
    /\ called = "none"
    /\ \E order \in SortedOrders(matches) :
          \E r \in { compute_rest_days(matches, order) } :
              out' = r.ret /\ raised' = r.raised /\ matches' = r.arg
    /\ called' = "rest_days"
    /\ UNCHANGED <<Chain, Harvesting>>
    /\ args' = NoArgs
    /\ UNCHANGED Inputs

ComputeKeyPlayers ==
    /\ called = "none"
    /\ \E order \in SortedOrders(matches) :
       \E window \in 1..MaxWindow : \E top_n \in 1..MaxTopN :
       \E r \in { compute_key_players(matches, player_stats, window, top_n, order) } :
          /\ out' = r.ret
          /\ raised' = r.raised
          /\ matches' = r.arg
          /\ player_stats' = r.aux
          /\ args' = [window |-> window, top_n |-> top_n]
    /\ called' = "key_players"
    /\ UNCHANGED <<Chain, Harvesting>>
    /\ UNCHANGED <<teams_info, city_state_map, standings>>

ComputeTravelDistance ==
    /\ called = "none"
    /\ \E r \in { compute_travel_distance(matches, teams_info, city_state_map) } :
          /\ out' = r.ret
          /\ raised' = r.raised
          /\ matches' = r.arg
          /\ teams_info' = r.aux
    /\ called' = "travel_distance"
    /\ UNCHANGED <<Chain, Harvesting>>
    /\ args' = NoArgs
    /\ UNCHANGED <<city_state_map, player_stats, standings>>

ComputeImportanceScore ==
    /\ called = "none"
    /\ \E r \in { compute_importance_score(matches, standings, ImportanceParams) } :
          /\ out' = r.ret
          /\ raised' = r.raised
          /\ matches' = r.arg
          /\ standings' = r.aux
    /\ called' = "importance_score"
    /\ UNCHANGED <<Chain, Harvesting>>
    /\ args' = NoArgs
    /\ UNCHANGED <<teams_info, city_state_map, player_stats>>

ComputeRollingStats ==
    /\ called = "none"
    /\ \E window \in 1..MaxWindow :
          \E r \in { compute_rolling_stats(matches, window) } :
              /\ out' = r.ret
              /\ raised' = r.raised
              /\ matches' = r.arg
              /\ args' = [window |-> window, top_n |-> 0]
    /\ called' = "rolling_stats"
    /\ UNCHANGED <<Chain, Harvesting>>
    /\ UNCHANGED Inputs

\* the table the next stage of a chain is given: the caller's table, then the
\* table the previous stage returned
ChainTable == IF applied = <<>> THEN matches ELSE out

\* one stage called on a table, with the caller's configuration
StageOn(name, table) ==
    CASE name = "travel_distance" ->
             compute_travel_distance(table, teams_info, city_state_map)
      [] name = "rest_days" ->
             compute_rest_days(table, TieOrder(table, tie_rule))
      [] name = "rolling_stats" ->
             compute_rolling_stats(table, args.window)
      [] name = "key_players" ->
             compute_key_players(table, player_stats, args.window, args.top_n,
                                 TieOrder(table, tie_rule))
      [] name = "importance_score" ->
             compute_importance_score(table, standings, ImportanceParams)

\* the caller passes the running table to a stage it has not applied yet; a
\* second run applies the stages in the order of the first
ChainStage(name) ==
    /\ \A n \in 1..Len(applied) : applied[n] # name
    /\ Len(applied) < Len(first.order) => first.order[Len(applied) + 1] = name
    /\ (name = "travel_distance") = (applied = <<>>)
    /\ \E r \in { StageOn(name, ChainTable) } :
          /\ out' = r.ret
          /\ raised' = r.raised
          /\ matches' = IF applied = <<>> THEN r.arg ELSE matches
    /\ applied' = Append(applied, name)
    /\ called' = name
    /\ UNCHANGED <<Inputs, args, tie_rule, first, Harvesting>>

ChainTravelDistance == ChainStage("travel_distance")
ChainRestDays == ChainStage("rest_days")
ChainRollingStats == ChainStage("rolling_stats")
ChainKeyPlayers == ChainStage("key_players")
ChainImportanceScore == ChainStage("importance_score")

\* all five stages applied: the caller keeps the result and starts over on the
\* same inputs
RunAgain ==
    /\ Len(applied) = 5
    /\ first = NoRun
    /\ first' = [order |-> applied, table |-> out]
    /\ applied' = <<>>
    /\ out' = <<>>
    /\ called' = "none"
    /\ UNCHANGED <<matches, Inputs, args, raised, tie_rule, Harvesting>>

NextChain ==
    \/ ChainTravelDistance
    \/ ChainRestDays
    \/ ChainRollingStats
    \/ ChainKeyPlayers
    \/ ChainImportanceScore
    \/ RunAgain

SpecChain == InitChain /\ [][NextChain]_vars

SpecRest == InitRest /\ [][ComputeRestDays]_vars

SpecRoll == InitRoll /\ [][ComputeRollingStats]_vars

SpecKey == InitKey /\ [][ComputeKeyPlayers]_vars

SpecTravel == InitTravel /\ [][ComputeTravelDistance]_vars

SpecImportance == InitImportance /\ [][ComputeImportanceScore]_vars

\* rolling statistics and key players, the two windowed aggregates
SpecAggregates ==
    (InitRoll \/ InitKey) /\ [][ComputeRollingStats \/ ComputeKeyPlayers]_vars

Next ==
    \/ ComputeTravelDistance
    \/ ComputeRestDays
    \/ ComputeRollingStats
    \/ ComputeKeyPlayers
    \/ ComputeImportanceScore

Spec == Init /\ [][Next]_vars

\* every stage called on a table that lacks a column
SpecInvalid == InitInvalid /\ [][Next]_vars

----------------------------------------------------------------------------
(* Harvesting *)

Features ==
    <<matches, teams_info, city_state_map, player_stats, standings,
      called, args, out, raised, tie_rule, applied, first>>

\* a fresh installation
InitHarvest == matches = <<>> /\ NoAuxiliary /\ NotYetCalled /\ NoHarvest

\* harvester.py 310-331: harvest_seasons builds its RequestQuota, which loads
\* today's count from the file and writes it back, and seeds teams_info
StartHarvest(h) ==
    /\ harvest[h].pc = "idle"
    /\ \E include_player_stats \in BOOLEAN :
          harvest' = [harvest EXCEPT ![h] =
                         [pc |-> "fetch", include_player_stats |-> include_player_stats,
                          count |-> quota_log, competition |-> 1,
                          fixtures |-> <<>>, pending_rows |-> <<>>,
                          inserted_matches |-> 0, season_summaries |-> <<>>,
                          rows_added |-> 0]]
    /\ teams_seeded' = TRUE
    /\ UNCHANGED <<quota_log, http_requests, db_matches, db_player_stats, Features>>

\* harvester.py 241 (fetch_fixtures, APIFootballClient.get 115-121): without
\* quota the RuntimeError ends harvest_seasons (338-339), which returns the
\* summaries of the seasons finished before; else the request is
\* counted, saved and sent, and an HTTP error status ends the call with it
FetchFixtures(h) ==
    /\ harvest[h].pc = "fetch"
    /\ \E c \in { consume(harvest[h].count, 1) } :
          IF ~c.ok
          THEN /\ harvest' = [harvest EXCEPT ![h].pc = "done"]
               /\ UNCHANGED <<quota_log, http_requests>>
          ELSE /\ quota_log' = c.count
               /\ http_requests' = http_requests + 1
               /\ \/ harvest' = [harvest EXCEPT ![h].pc = "failed", ![h].count = c.count]
                  \/ \E fixtures \in ApiFixtureLists :
                        harvest' = [harvest EXCEPT ![h].pc = "loop",
                                                   ![h].count = c.count,
                                                   ![h].fixtures = fixtures,
                                                   ![h].pending_rows = <<>>]
    /\ UNCHANGED <<db_matches, db_player_stats, teams_seeded, Features>>

\* harvester.py 246-285: the body of the fixture loop for the next fixture
ProcessFixture(h) ==
    /\ harvest[h].pc = "loop"
    /\ harvest[h].fixtures # <<>>
    /\ LET fixture_id == Head(harvest[h].fixtures)
           campeonato == competitions[harvest[h].competition]
           exists == match_exists(db_matches, fixture_id)
           stats_needed == /\ harvest[h].include_player_stats
                           /\ ~player_stats_exists(db_player_stats, fixture_id)
           pending == IF exists THEN harvest[h].pending_rows
                      ELSE Append(harvest[h].pending_rows,
                                  fixture_to_row(fixture_id, campeonato))
           c == consume(harvest[h].count, 1)
       IN  \E allowed \in allowed_competition(campeonato) :
           IF ~allowed \/ (exists /\ ~stats_needed)
           THEN /\ harvest' = [harvest EXCEPT ![h].fixtures = Tail(@)]
                /\ UNCHANGED <<quota_log, http_requests, db_player_stats>>
           ELSE IF ~(stats_needed /\ remaining(harvest[h].count) > 0)
           THEN /\ harvest' = [harvest EXCEPT ![h].fixtures = Tail(@),
                                              ![h].pending_rows = pending]
                /\ UNCHANGED <<quota_log, http_requests, db_player_stats>>
           ELSE IF ~c.ok
           THEN \* RuntimeError: break
                /\ harvest' = [harvest EXCEPT ![h].fixtures = <<>>,
                                              ![h].pending_rows = pending]
                /\ UNCHANGED <<quota_log, http_requests, db_player_stats>>
           ELSE /\ harvest' = [harvest EXCEPT ![h].fixtures = Tail(@),
                                              ![h].pending_rows = pending,
                                              ![h].count = c.count]
                /\ quota_log' = c.count
                /\ http_requests' = http_requests + 1
                \* an HTTP error or no rows: nothing is stored; else the rows are
                /\ \E stats_rows \in BOOLEAN :
                      db_player_stats' = IF stats_rows
                                         THEN db_player_stats \cup {fixture_id}
                                         ELSE db_player_stats
    /\ UNCHANGED <<db_matches, teams_seeded, Features>>

\* harvester.py 287-307, 240 and 334-337: after the fixture loop the pending rows are
\* inserted and the next competition, if any, is fetched
InsertPending(h) ==
    /\ harvest[h].pc = "loop"
    /\ harvest[h].fixtures = <<>>
    /\ db_matches' = IF harvest[h].pending_rows # <<>>
                     THEN insert_matches(db_matches, harvest[h].pending_rows)
                     ELSE db_matches
    /\ harvest' = [harvest EXCEPT
                      ![h].pc = IF harvest[h].competition = Len(competitions)
                                THEN "done" ELSE "fetch",
                      ![h].competition = IF harvest[h].competition = Len(competitions)
                                         THEN @ ELSE @ + 1,
                      ![h].pending_rows = <<>>,
                      ![h].inserted_matches = @ + Len(harvest[h].pending_rows),
                      ![h].season_summaries =
                          IF harvest[h].competition = Len(competitions)
                          THEN <<harvest[h].inserted_matches + Len(harvest[h].pending_rows)>>
                          ELSE @,
                      ![h].rows_added = @ + Len(db_matches') - Len(db_matches)]
    /\ UNCHANGED <<quota_log, http_requests, db_player_stats, teams_seeded, Features>>

NextHarvest ==
    \E h \in Harvesters :
        \/ StartHarvest(h)
        \/ FetchFixtures(h)
        \/ ProcessFixture(h)
        \/ InsertPending(h)

SpecHarvest == InitHarvest /\ [][NextHarvest]_vars

----------------------------------------------------------------------------
(* Claims *)

\* the rows of a returned table a team plays in, as positions
RowsOfTeam(table, T) ==
    { i \in 1..Len(table) : T \in {table[i].time_casa, table[i].time_fora} }

TeamsOf(table) ==
    { table[i].time_casa : i \in 1..Len(table) } \cup
    { table[i].time_fora : i \in 1..Len(table) }

SetMax(S) == CHOOSE x \in S : \A y \in S : y <= x

\* the rest-days value of the row on team T's side
RestOnSide(row, T) ==
    IF row.time_casa = T THEN row.rest_days_home ELSE row.rest_days_away

IsDateSorted(table) ==
    \A i, j \in 1..Len(table) : i < j => table[i].data <= table[j].data

\* C2: compute_rest_days returns the matches in date order, and for every team
\* exactly one match has a null rest-days value on the team's side, it is a
\* match of the team's earliest date, and every other match of the team holds
\* the non-negative number of days since the team's immediately preceding
\* match, home or away.
RestDaysFromPrecedingMatch ==
    called = "rest_days" =>
        /\ IsDateSorted(out)
        /\ \A T \in TeamsOf(out) :
              LET mine == RowsOfTeam(out, T)
              IN  /\ Cardinality({ i \in mine : RestOnSide(out[i], T) = None }) = 1
                  /\ \A i \in mine :
                        LET before == { j \in mine : j < i }
                        IN  IF before = {}
                            THEN /\ RestOnSide(out[i], T) = None
                                 /\ \A j \in mine : out[i].data <= out[j].data
                            ELSE /\ RestOnSide(out[i], T) =
                                        Some(out[i].data - out[SetMax(before)].data)
                                 /\ Val(RestOnSide(out[i], T)) >= 0
                                 /\ \A j \in before : out[j].data <= out[SetMax(before)].data

\* C2 witness: a team rests three days between an away match and a home match
\* while its opponent, in its second match of that day, rests none
RestDaysWitness ==
    /\ called = "rest_days"
    /\ \E i, j \in 1..Len(out) :
          /\ i < j
          /\ out[i].time_fora = out[j].time_casa
          /\ out[j].rest_days_home = Some(3)
          /\ out[j].rest_days_away = Some(0)

\* the value of a metric in a match row, seen from team T's side
MetricOf(row, T, metric) ==
    LET home == row.time_casa = T
    IN  CASE metric = "goals_for" -> IF home THEN row.gols_casa ELSE row.gols_fora
          [] metric = "goals_against" -> IF home THEN row.gols_fora ELSE row.gols_casa
          [] metric = "xg_for" -> IF home THEN row.xG_casa ELSE row.xG_fora
          [] metric = "xg_against" -> IF home THEN row.xG_fora ELSE row.xG_casa

\* row j comes before row i chronologically: earlier date, or same date and
\* earlier in the table
Precedes(table, j, i) ==
    \/ table[j].data < table[i].data
    \/ table[j].data = table[i].data /\ j < i

RECURSIVE SumOver(_, _, _, _)
SumOver(table, T, metric, rows) ==
    IF rows = {} THEN 0
    ELSE LET j == CHOOSE x \in rows : TRUE
         IN  Val(MetricOf(table[j], T, metric)) + SumOver(table, T, metric, rows \ {j})

\* the observations of team T that precede row i
PriorObs(table, T, i) == { j \in RowsOfTeam(table, T) : Precedes(table, j, i) }

\* the last `window` of a set of observations
RecentObs(table, prior, window) ==
    { j \in prior : Cardinality({ l \in prior : Precedes(table, j, l) }) < window }

\* the mean of a metric of team T over a set of observations, over the values
\* that are present; missing when none is
MeanOver(table, T, metric, obs) ==
    LET known == { j \in obs : MetricOf(table[j], T, metric) # None }
    IN  IF known = {} THEN None
        ELSE Some(Fraction(SumOver(table, T, metric, known), Cardinality(known)))

RollColumn(metric, window, side) ==
    metric \o "_roll_last" \o ToString(window) \o "_" \o side

\* C3: the rolling value attached to a team's k-th chronological observation
\* (equal dates in table order) is the mean of the metric over the team's
\* previous min(window, k-1) observations, missing values skipped; it is null
\* for k = 1, and with window = 1 it is exactly the previous observation's value.
RollingIsMeanOfPrevious ==
    called = "rolling_stats" =>
        /\ Len(out) = Len(matches)
        /\ \A i \in 1..Len(out) : \A side \in {"home", "away"} :
             \E T \in { SideTeam(matches[i], side) } :
             \E prior \in { PriorObs(matches, T, i) } :
             \E recent \in { RecentObs(matches, prior, args.window) } :
                /\ out[i].id_partida = matches[i].id_partida
                /\ Cardinality(recent) =
                      IF Cardinality(prior) < args.window
                      THEN Cardinality(prior) ELSE args.window
                /\ \A m \in 1..4 :
                     \E v \in { out[i][RollColumn(Metrics[m], args.window, side)] } :
                        /\ v = MeanOver(matches, T, Metrics[m], recent)
                        /\ prior = {} => v = None
                        /\ (args.window = 1 /\ prior # {}) =>
                              LET j == CHOOSE x \in prior :
                                           \A l \in prior : l = x \/ Precedes(matches, l, x)
                                  prev == MetricOf(matches[j], T, Metrics[m])
                              IN  v = IF prev = None THEN None ELSE Some(<<Val(prev), 1>>)

\* C3 witness: with window = 2 and all dates different, a home team whose goals
\* in its two previous matches sum to 3 gets 3/2, and the away team, in its
\* first match, gets null
RollingWitness ==
    /\ called = "rolling_stats"
    /\ args.window = 2
    /\ \A i, j \in 1..Len(out) : i # j => out[i].data # out[j].data
    /\ \E i \in 1..Len(out) :
          /\ out[i]["goals_for_roll_last2_home"] = Some(<<3, 2>>)
          /\ out[i]["goals_for_roll_last2_away"] = None
          /\ out[i]["xg_against_roll_last2_home"] # None

KeyColumn(side) == IF side = "home" THEN "key_players_home" ELSE "key_players_away"

\* the player-stat rows of team T that belong to a match of T dated strictly
\* before row i of the match table
QualifyingStats(table, stats, T, i) ==
    { n \in 1..Len(stats) :
        /\ stats[n].time = T
        /\ \E j \in RowsOfTeam(table, T) :
              /\ table[j].id_partida = stats[n].id_partida
              /\ table[j].data < table[i].data }

\* C4: every key-players list has at most top_n entries, is ordered by score
\* descending with goals descending as tie-break, has score = goals + assists
\* in every entry, and is empty when the team has no player statistics from a
\* match dated before this one.
KeyPlayersRanked ==
    (called = "key_players" /\ ~raised) =>
        /\ Len(out) = Len(matches)
        /\ \A i \in 1..Len(out) : \A side \in {"home", "away"} :
             \E L \in { out[i][KeyColumn(side)] } :
                /\ out[i].id_partida = matches[i].id_partida
                /\ Len(L) <= args.top_n
                /\ \A n \in 1..(Len(L) - 1) :
                      \/ L[n].score > L[n + 1].score
                      \/ L[n].score = L[n + 1].score /\ L[n].gols >= L[n + 1].gols
                /\ \A n \in 1..Len(L) : L[n].score = L[n].gols + L[n].assistencias
                /\ QualifyingStats(matches, player_stats.rows,
                                   SideTeam(matches[i], side), i) = {}
                      => L = <<>>

\* C4 witness: a list cut to top_n = 2 entries of at least three players with
\* earlier statistics, in which the goals tie-break puts a player before one
\* with the same score and a smaller id, and an empty list for a team in its
\* first match
KeyPlayersWitness ==
    /\ called = "key_players"
    /\ ~raised
    /\ args.top_n = 2
    /\ \E i, j \in 1..Len(out) :
          /\ Len(out[i].key_players_home) = 2
          /\ out[i].key_players_home[1].score = out[i].key_players_home[2].score
          /\ out[i].key_players_home[1].gols > out[i].key_players_home[2].gols
          /\ out[i].key_players_home[1].id_jogador > out[i].key_players_home[2].id_jogador
          /\ out[j].key_players_away = <<>>
          /\ out[j].time_fora = out[i].time_casa
          /\ Cardinality({ player_stats.rows[n].id_jogador :
                             n \in QualifyingStats(matches, player_stats.rows,
                                                   out[i].time_casa, i) }) >= 3

TravelColumn(side) == IF side = "home" THEN "travel_km_home" ELSE "travel_km_away"

\* the coordinates of the city of a match row, as the stage resolves them
MatchCoords(row) ==
    _resolve_city_coords(CityArg(CityHints(row.cidade_jogo, city_state_map), row.cidade_jogo),
                         CityHints(row.cidade_jogo, city_state_map).state_hint)

\* the team plays in its home city: its normalized name is part of the
\* normalized city hint
PlaysAtHome(row, T) ==
    \E hint \in { CityHints(row.cidade_jogo, city_state_map).city_hint } :
        /\ hint # None
        /\ Val(hint) # <<>>
        /\ Contains(normalize_team_name(Val(hint)), normalize_team_name(T))

\* C5: whenever the team's normalized name is a substring of the normalized
\* city hint the travel distance of that side is 0.0, whether or not the
\* coordinates resolve; otherwise it is the haversine distance when both
\* coordinates resolve and null when one is missing.
HomeCityForcesZero ==
    called = "travel_distance" =>
        \A i \in 1..Len(out) : \A side \in {"home", "away"} :
            \E T \in { SideTeam(matches[i], side) } :
            \E base \in { _resolve_team_coords(T, teams_info) } :
            \E city \in { MatchCoords(matches[i]) } :
                out[i][TravelColumn(side)] =
                    IF PlaysAtHome(matches[i], T) THEN Some(0)
                    ELSE IF base # None /\ city # None
                    THEN Some(haversine_distance_km(Val(base)[1], Val(base)[2],
                                                    Val(city)[1], Val(city)[2]))
                    ELSE None

\* the rows of the override table whose name is the queried name up to case
OverrideHits(T) ==
    { n \in 1..Len(teams_info.rows) :
        Lower(teams_info.rows[n].nome_time) = Lower(T) }

\* override first, then the built-in table, then nothing
ExpectedTeamCoords(T) ==
    IF OverrideHits(T) # {}
    THEN LET n == CHOOSE x \in OverrideHits(T) : \A y \in OverrideHits(T) : x <= y
         IN  Some(<<teams_info.rows[n].latitude, teams_info.rows[n].longitude>>)
    ELSE IF T \in DOMAIN TEAM_COORDINATES
    THEN Some(<<TEAM_COORDINATES[T].lat, TEAM_COORDINATES[T].lon>>)
    ELSE None

\* C7: a team's coordinates are those of the (first) override row whose name
\* equals the team's name case-insensitively, even when the built-in table has
\* the team; otherwise those of the built-in table; otherwise null, without an
\* error.  The distance the stage emits is measured from these coordinates.
TeamCoordsResolutionOrder ==
    called = "travel_distance" =>
        /\ ~raised
        /\ \A i \in 1..Len(out) : \A side \in {"home", "away"} :
              \E T \in { SideTeam(matches[i], side) } :
              \E want \in { ExpectedTeamCoords(T) } :
              \E city \in { MatchCoords(matches[i]) } :
              \E v \in { out[i][TravelColumn(side)] } :
                 /\ _resolve_team_coords(T, teams_info) = want
                 /\ want = None => v = None
                 /\ (want # None /\ city # None /\ ~PlaysAtHome(matches[i], T)) =>
                        v = Some(haversine_distance_km(Val(want)[1], Val(want)[2],
                                                       Val(city)[1], Val(city)[2]))

\* C7 witness: in one returned table a team of the built-in table is measured
\* from its override coordinates, another from the built-in table, and a third,
\* in neither table, has no distance
ResolutionOrderWitness ==
    /\ called = "travel_distance"
    /\ \E i, j \in 1..Len(out) :
          /\ out[i].time_casa \in DOMAIN TEAM_COORDINATES
          /\ OverrideHits(out[i].time_casa) # {}
          /\ MatchCoords(out[i]) # None
          /\ out[i].travel_km_home # None
          /\ out[i].travel_km_home #
                Some(haversine_distance_km(TEAM_COORDINATES[out[i].time_casa].lat,
                                           TEAM_COORDINATES[out[i].time_casa].lon,
                                           Val(MatchCoords(out[i]))[1],
                                           Val(MatchCoords(out[i]))[2]))
          /\ OverrideHits(out[i].time_fora) = {}
          /\ out[i].travel_km_away # None
          /\ MatchCoords(out[j]) # None
          /\ out[j].travel_km_home = None

\* a name without case, hyphens, dots, FC tokens and spaces
SpellingKey(name) == Replace(normalize_team_name(name), <<" ">>, <<>>)

\* C8: two team names that are equal up to case, hyphens, spaces and FC tokens
\* resolve to the same coordinates: in the same city they travel the same
\* distance.
LookupsIgnoreSpelling ==
    called = "travel_distance" =>
        \A i, j \in 1..Len(out) : \A s, t \in {"home", "away"} :
            (/\ SpellingKey(SideTeam(out[i], s)) = SpellingKey(SideTeam(out[j], t))
             /\ out[i].cidade_jogo = out[j].cidade_jogo)
            => out[i][TravelColumn(s)] = out[j][TravelColumn(t)]

ImportanceColumn(side) == IF side = "home" THEN "importance_home" ELSE "importance_away"

\* the first row of the standings of one round that satisfies Test, as a
\* sequence of at most one row
FirstStanding(round, Test(_)) ==
    LET hits == { n \in 1..Len(standings.rows) :
                    standings.rows[n].rodada = round /\ Test(standings.rows[n]) }
    IN  IF hits = {} THEN <<>>
        ELSE <<standings.rows[CHOOSE x \in hits : \A y \in hits : x <= y]>>

\* what the formula of the importance score is computed from, for one side of a
\* match row: whether the round, the team's row and both cutoff rows are there,
\* twice the stage factor, and the sum of the two gaps
ImportanceCase(row, side) ==
    IF ParsedRound(row.rodada) = None
    THEN [defined |-> FALSE, twice_factor |-> 0, gaps |-> 0]
    ELSE LET round == Val(ParsedRound(row.rodada))
             IsTeam(r) == Lower(r.time) = Lower(SideTeam(row, side))
             IsG4(r) == r.posicao = ImportanceParams.g4_cutoff
             IsZ4(r) == r.posicao = ImportanceParams.z4_cutoff
             mine == FirstStanding(round, IsTeam)
             g4 == FirstStanding(round, IsG4)
             z4 == FirstStanding(round, IsZ4)
         IN  IF mine = <<>> \/ g4 = <<>> \/ z4 = <<>>
             THEN [defined |-> FALSE, twice_factor |-> 0, gaps |-> 0]
             ELSE [defined |-> TRUE,
                   twice_factor |->
                       IF round >= ImportanceParams.high_round_threshold THEN 2 ELSE 1,
                   gaps |->
                       (IF g4[1].pontos > mine[1].pontos
                        THEN g4[1].pontos - mine[1].pontos ELSE 0)
                       + (IF mine[1].pontos > z4[1].pontos
                          THEN mine[1].pontos - z4[1].pontos ELSE 0)]

\* v thousandths is x = twice_factor / (2 * (1 + gaps)) rounded to three places:
\* no thousandth is nearer to x
IsRounded(v, twice_factor, gaps) ==
    LET den == 2 * (1 + gaps)
        diff == v * den - 1000 * twice_factor
    IN  2 * (IF diff < 0 THEN -diff ELSE diff) <= den

\* C9: when the round, the team's row and both cutoff rows are present the
\* importance is stage_factor / (1 + gap_g4 + gap_z4) rounded to three places,
\* with stage_factor 1.0 from high_round_threshold on and 0.5 before; for one
\* stage factor it does not increase when the sum of the gaps grows, and it
\* equals the stage factor exactly when both gaps are 0.
ImportanceFollowsFormula ==
    called = "importance_score" =>
        \A i \in 1..Len(out) : \A side \in {"home", "away"} :
            \E c \in { ImportanceCase(matches[i], side) } :
            \E v \in { out[i][ImportanceColumn(side)] } :
                c.defined =>
                    /\ v # None
                    /\ IsRounded(Val(v), c.twice_factor, c.gaps)
                    /\ (Val(v) = 500 * c.twice_factor) <=> (c.gaps = 0)
                    /\ \A j \in 1..Len(out) : \A other \in {"home", "away"} :
                          \E d \in { ImportanceCase(matches[j], other) } :
                             (d.defined /\ d.twice_factor = c.twice_factor
                              /\ c.gaps <= d.gaps)
                             => Val(out[j][ImportanceColumn(other)]) <= Val(v)

\* C9 witness: in round 28 a home team three points above the Z4 row and not
\* below the G4 row scores 0.25 while the away team, one point below the G4
\* row, scores 0.5; the same table in round 27 gives the home team 0.125
ImportanceWitness ==
    /\ called = "importance_score"
    /\ \E i, j \in 1..Len(out) :
          /\ out[i].importance_home = Some(250)
          /\ out[i].importance_away = Some(500)
          /\ ImportanceCase(matches[i], "home").gaps = 3
          /\ ImportanceCase(matches[i], "away").gaps = 1
          /\ out[j].importance_home = Some(125)

\* a match row with its goals and expected goals removed
Scrubbed(row) ==
    [row EXCEPT !.gols_casa = None, !.gols_fora = None,
                !.xG_casa = None, !.xG_fora = None]

\* the match table with every match dated on or after row i's date removed,
\* except row i itself, which is kept without its result
PastOnly(table, i) ==
    SelectSeq(table, LAMBDA r : r.data < table[i].data) \o <<Scrubbed(table[i])>>

\* the player statistics of the matches dated before row i
PastStats(table, stats, i) ==
    SelectSeq(stats, LAMBDA r : \E j \in 1..Len(table) :
                                    /\ table[j].id_partida = r.id_partida
                                    /\ table[j].data < table[i].data)

\* C1: the rolling values and the key-players lists of a match are a function
\* of the matches dated strictly before it: they are what the stage returns
\* for that match when every match dated on or after it is removed and its own
\* result is erased.
AggregatesUseOnlyEarlierDates ==
    /\ called = "rolling_stats" =>
          \A i \in 1..Len(matches) :
              \E past \in { compute_rolling_stats(PastOnly(matches, i), args.window).ret } :
              \E now \in { RowOf(out, matches[i].id_partida) } :
                  \A m \in 1..4 : \A side \in {"home", "away"} :
                      now[RollColumn(Metrics[m], args.window, side)] =
                          past[Len(past)][RollColumn(Metrics[m], args.window, side)]
    /\ (called = "key_players" /\ ~raised) =>
          \A i \in 1..Len(matches) :
              \E table \in { PastOnly(matches, i) } :
              \E stats \in { Frame(PastStats(matches, player_stats.rows, i)) } :
              \E now \in { RowOf(out, matches[i].id_partida) } :
              \E order \in SortedOrders(table) :
              \E past \in { compute_key_players(table, stats, args.window,
                                                 args.top_n, order).ret } :
                  /\ now.key_players_home = past[Len(past)].key_players_home
                  /\ now.key_players_away = past[Len(past)].key_players_away

\* the auxiliary table of the stage that was called is absent or empty
AuxiliaryMissing ==
    \/ called = "travel_distance" /\ (teams_info.kind # "frame" \/ teams_info.rows = <<>>)
    \/ called = "key_players" /\ (player_stats.kind # "frame" \/ player_stats.rows = <<>>)
    \/ called = "importance_score" /\ (standings.kind # "frame" \/ standings.rows = <<>>)

\* C6: the travel-distance, key-players and importance stages complete without
\* raising when their auxiliary table is absent or empty, and the feature
\* columns of the stage are then null in every row.
MissingAuxiliaryDegradesToNull ==
    AuxiliaryMissing =>
        /\ ~raised
        /\ Len(out) = Len(matches)
        /\ called = "importance_score" =>
              \A i \in 1..Len(out) :
                  out[i].importance_home = None /\ out[i].importance_away = None
        /\ called = "travel_distance" =>
              \A i \in 1..Len(out) :
                  out[i].travel_km_home = None /\ out[i].travel_km_away = None

\* the columns of the match table
BaseColumns ==
    {"id_partida", "data", "rodada", "time_casa", "time_fora", "gols_casa",
     "gols_fora", "xG_casa", "xG_fora", "cidade_jogo"}

\* C10: a stage that returns, returns as many rows as the match table has, with
\* the same set of match ids, every row keeping the values of the match
\* table's columns next to the appended ones; and no call changes the match
\* table or an auxiliary table it was given.
StagesPreserveRowsAndInputs ==
    /\ [](( called # "none" /\ ~raised ) =>
            /\ Len(out) = Len(matches)
            /\ Ids(out) = Ids(matches)
            /\ \A i \in 1..Len(out) :
                  /\ BaseColumns \subseteq DOMAIN out[i]
                  /\ DOMAIN out[i] # BaseColumns
                  /\ \A col \in BaseColumns :
                        out[i][col] = RowOf(matches, out[i].id_partida)[col])
    /\ [][ /\ matches' = matches
           /\ teams_info' = teams_info
           /\ city_state_map' = city_state_map
           /\ player_stats' = player_stats
           /\ standings' = standings ]_vars

\* C10 witness: compute_rest_days returned the two matches of the table in the
\* other order, the later-listed match first
PreservedRowsWitness ==
    /\ called = "rest_days"
    /\ Len(matches) = 2
    /\ Len(out) = 2
    /\ out[1].id_partida = matches[2].id_partida
    /\ out[2].id_partida = matches[1].id_partida

\* the feature columns a stage appends
FeatureColumns(name) ==
    CASE name = "travel_distance" -> {"travel_km_home", "travel_km_away"}
      [] name = "rest_days" -> {"rest_days_home", "rest_days_away"}
      [] name = "rolling_stats" ->
             { RollColumn(Metrics[m], args.window, side) :
                 m \in 1..4, side \in {"home", "away"} }
      [] name = "key_players" -> {"key_players_home", "key_players_away"}
      [] name = "importance_score" -> {"importance_home", "importance_away"}

\* C11: in whatever order rest days, rolling statistics, key players and
\* importance are chained, every match id gets the same value in every feature
\* column: the value the stage gives when it is applied before the others, to
\* the caller's table.
StagesCommute ==
    \A n \in 1..Len(applied) :
        applied[n] # "travel_distance" =>
            \E alone \in { StageOn(applied[n], matches).ret } :
                \A i \in 1..Len(out) : \A col \in FeatureColumns(applied[n]) :
                    out[i][col] = RowOf(alone, out[i].id_partida)[col]

NamedColumn(metric, window, side) ==
    metric \o "_last" \o ToString(window) \o "_" \o side

\* C13: compute_rolling_stats appends exactly eight columns, named
\* <metric>_last<window>_<side> for the four metrics and the two sides.
RollingColumnsNamed ==
    called = "rolling_stats" =>
        \A i \in 1..Len(out) :
            (DOMAIN out[i]) \ BaseColumns =
                { NamedColumn(Metrics[m], args.window, side) :
                    m \in 1..4, side \in {"home", "away"} }

\* the columns of the match table a stage reads
StageReads(name) ==
    CASE name = "travel_distance" -> {"time_casa", "time_fora", "cidade_jogo"}
      [] name = "rest_days" -> {"data", "time_casa", "time_fora"}
      [] name = "rolling_stats" ->
             {"id_partida", "data", "time_casa", "time_fora",
              "gols_casa", "gols_fora", "xG_casa", "xG_fora"}
      [] name = "key_players" -> {"id_partida", "data", "time_casa", "time_fora"}
      [] name = "importance_score" -> {"time_casa", "time_fora", "rodada"}

\* C14: a stage called on a match table that lacks a column the stage reads
\* fails with an error; it does not return a table with null features.
InvalidTableIsReported ==
    (/\ called # "none"
     /\ matches # <<>>
     /\ ~(StageReads(called) \subseteq DOMAIN matches[1]))
    => raised

\* a field of the player statistics summed over a set of rows
RECURSIVE SumStat(_, _, _)
SumStat(stats, rows, field) ==
    IF rows = {} THEN 0
    ELSE LET q == CHOOSE x \in rows : TRUE
         IN  stats[q][field] + SumStat(stats, rows \ {q}, field)

\* the rows of the player statistics of team T and one player in the matches R
\* (positions of the match table)
PlayerRows(T, player, R) ==
    { q \in 1..Len(player_stats.rows) :
        /\ player_stats.rows[q].time = T
        /\ player_stats.rows[q].id_jogador = player
        /\ \E j \in R : matches[j].id_partida = player_stats.rows[q].id_partida }

\* C15: for every match M and side team T there is a set of min(window, h)
\* matches of T, taken from the h matches of T dated strictly before M and none
\* of them older than one left out, such that every listed player has
\* statistics in it and the player's goals and assists are the sums over
\* exactly the player's rows of team T in those matches.
KeyPlayersFromRecentMatches ==
    (called = "key_players" /\ ~raised) =>
        \A i \in 1..Len(matches) : \A side \in {"home", "away"} :
            \E T \in { SideTeam(matches[i], side) } :
            \E L \in { RowOf(out, matches[i].id_partida)[KeyColumn(side)] } :
            \E hist \in { { j \in RowsOfTeam(matches, T) :
                               matches[j].data < matches[i].data } } :
            \E R \in SUBSET hist :
                /\ Cardinality(R) = IF Cardinality(hist) < args.window
                                     THEN Cardinality(hist) ELSE args.window
                /\ \A a \in hist \ R : \A b \in R : matches[a].data <= matches[b].data
                /\ \A n \in 1..Len(L) :
                      \E rows \in { PlayerRows(T, L[n].id_jogador, R) } :
                         /\ rows # {}
                         /\ L[n].gols = SumStat(player_stats.rows, rows, "gols")
                         /\ L[n].assistencias =
                               SumStat(player_stats.rows, rows, "assistencias")

\* C15 witness: with window = 1 a home team has played on two earlier days, and
\* a listed player who has statistics in both matches is credited with those
\* of the later one only
RecentMatchesWitness ==
    /\ called = "key_players"
    /\ ~raised
    /\ args.window = 1
    /\ \E i, a, b \in 1..Len(matches) :
          /\ matches[a].data < matches[b].data
          /\ matches[b].data < matches[i].data
          /\ {a, b} \subseteq RowsOfTeam(matches, matches[i].time_casa)
          /\ \E n \in 1..Len(out[i].key_players_home) :
                \E player \in { out[i].key_players_home[n].id_jogador } :
                   /\ PlayerRows(matches[i].time_casa, player, {a}) # {}
                   /\ PlayerRows(matches[i].time_casa, player, {b}) # {}
                   /\ out[i].key_players_home[n].gols + out[i].key_players_home[n].assistencias
                         < SumStat(player_stats.rows,
                                   PlayerRows(matches[i].time_casa, player, {a, b}), "gols")
                           + SumStat(player_stats.rows,
                                     PlayerRows(matches[i].time_casa, player, {a, b}),
                                     "assistencias")

\* the position in the caller's table of the match with an id
PositionOf(id) == CHOOSE j \in 1..Len(matches) : matches[j].id_partida = id

\* C16: compute_rest_days (like the other stateful stages) goes through the
\* matches in non-decreasing date order, and through matches of equal dates in
\* the order of the input table: the rows it returns are in that order.
EqualDatesKeepInputOrder ==
    called = "rest_days" =>
        \A i, j \in 1..Len(out) :
            i < j =>
                \/ out[i].data < out[j].data
                \/ /\ out[i].data = out[j].data
                   /\ PositionOf(out[i].id_partida) < PositionOf(out[j].id_partida)

\* the round of a match as a number: an integer round, or the digits of a
\* textual round; nothing for a missing round and for a text without digits
RoundOf(rodada) ==
    IF rodada.kind = "int" THEN Some(rodada.v)
    ELSE IF rodada.kind = "str" /\ \E n \in 1..Len(rodada.s) : rodada.s[n] \in DigitChars
    THEN Some(ParseInt(SelectSeq(rodada.s, LAMBDA ch : ch \in DigitChars)))
    ELSE None

\* one of the rows the score of team T in a round needs is not in the standings
LacksStandings(round, T) ==
    LET InRound(r) == TRUE
        IsTeam(r) == Lower(r.time) = Lower(T)
        IsG4(r) == r.posicao = ImportanceParams.g4_cutoff
        IsZ4(r) == r.posicao = ImportanceParams.z4_cutoff
    IN  \/ FirstStanding(round, InRound) = <<>>
        \/ FirstStanding(round, IsTeam) = <<>>
        \/ FirstStanding(round, IsG4) = <<>>
        \/ FirstStanding(round, IsZ4) = <<>>

\* C17: compute_importance_score raises nothing and gives a side null whenever
\* the round is missing or a text without digits, the round has no standings,
\* the team has no row in the round or a cutoff row is absent from it; and only
\* then: a textual round counts as the number its digits spell.
ImportanceNullCases ==
    called = "importance_score" =>
        /\ ~raised
        /\ \A i \in 1..Len(out) : \A side \in {"home", "away"} :
              \E R \in { RoundOf(matches[i].rodada) } :
                 (out[i][ImportanceColumn(side)] = None)
                 <=> (R = None \/ LacksStandings(Val(R), SideTeam(matches[i], side)))

\* C17 witness: with the standings of round 28 complete, a match of round
\* "Rodada 28" has a score and a match of round "final" has none
NullCasesWitness ==
    /\ called = "importance_score"
    /\ \E i, j \in 1..Len(out) :
          /\ matches[i].rodada = StrRound(Rodada28)
          /\ out[i].importance_home # None
          /\ out[i].importance_away # None
          /\ matches[j].rodada = StrRound(Final)
          /\ out[j].importance_home = None

\* the state code of a city field: the text after the last hyphen when the
\* field ends in a hyphen and a state code, else the entry of the mapping
ExpectedStateCode(city_field) ==
    LET suffix == Upper(Strip(SubSeq(city_field, LastIndexOf(city_field, "-") + 1,
                                     Len(city_field))))
    IN  IF Contains(city_field, <<"-">>) /\ suffix \in DOMAIN CAPITAL_COORDINATES
        THEN Some(suffix)
        ELSE IF InCityMap(city_state_map, city_field)
        THEN Some(Upper(CityMapAt(city_state_map, city_field)))
        ELSE None

ExpectedCityCoords(city_field) ==
    LET code == ExpectedStateCode(city_field)
    IN  IF code # None /\ Val(code) \in DOMAIN CAPITAL_COORDINATES
        THEN Some(<<CAPITAL_COORDINATES[Val(code)].lat, CAPITAL_COORDINATES[Val(code)].lon>>)
        ELSE None

\* C18: the coordinate of the match city is the region table's entry for the
\* state code, taken from the "-<STATE_CODE>" ending of the city field or else
\* from the city-to-state mapping, and null when there is no such code or
\* entry; a side whose team resolves has a distance whenever it is not null.
CityCoordsFromSuffixOrMap ==
    called = "travel_distance" =>
        \A i \in 1..Len(out) :
            \E want \in { ExpectedCityCoords(matches[i].cidade_jogo) } :
                /\ MatchCoords(matches[i]) = want
                /\ \A side \in {"home", "away"} :
                      (want # None /\ ExpectedTeamCoords(SideTeam(matches[i], side)) # None)
                      => out[i][TravelColumn(side)] # None


\* C19: within one day the recorded request count never exceeds daily_limit,
\* in the quota file and in every RequestQuota, and at most daily_limit
\* outbound HTTP requests are made.
QuotaNeverExceeded ==
    /\ quota_log <= daily_limit
    /\ \A h \in Harvesters : harvest[h].count <= daily_limit
    /\ http_requests <= daily_limit

HarvestAccounting ==
    \A h \in Harvesters :
        harvest[h].pc = "done" =>
            SumOf(harvest[h].season_summaries) = harvest[h].rows_added

====
